---- MODULE Spec2Model ----
(***************************************************************************)
(* case-poker: the card model (cards.rs), the five-card Hand               *)
(* (hands/mod.rs), the classifier (hands/classify.rs), the lazily built    *)
(* deck (deck.rs) and the two HTTP handlers (router.rs).                   *)
(*                                                                         *)
(* A char is modelled as a string naming it; a &str is the sequence of its *)
(* chars, and its len() is the sum of the chars' UTF-8 byte lengths.       *)
(***************************************************************************)
EXTENDS Integers, Sequences, FiniteSets, TLC

VARIABLES pc, req, resp, deck, trace

vars == <<pc, req, resp, deck, trace>>

-----------------------------------------------------------------------------
(* Bounds of the model *)

\* longest card text, in chars, handed to Card::from_str
MaxTextLen == 3

\* longest slice of cards handed to Hand::try_from
MaxCards == 6

\* most comma-separated segments in an /analyze path
MaxSegments == 6

\* random draws are taken inside a cyclic run of this many consecutive ranks
RankWindow == 4

\* threads that call draw_hand concurrently
NumThreads == 2

\* calls of draw_hand each thread makes
MaxDraws == 2

-----------------------------------------------------------------------------
(* cards.rs: Suit, Rank, Card *)

Suits == {"Clubs", "Diamonds", "Hearts", "Spades"}

\* enum Rank in declaration order; derive(Ord) compares by this position
RankDecl ==
  <<"Ace", "Two", "Three", "Four", "Five", "Six", "Seven", "Eight", "Nine",
    "Ten", "Jack", "Queen", "King">>

Ranks == {RankDecl[i] : i \in DOMAIN RankDecl}

\* position of each rank in the enum declaration (its discriminant)
RankPosition == [r \in Ranks |-> CHOOSE i \in DOMAIN RankDecl : RankDecl[i] = r]

RankOrd(r) == RankPosition[r]

\* mutant of numeric: the Ace counts as the highest rank
numeric_AceHigh(r) == IF r = "Ace" THEN 14 ELSE RankPosition[r]

\* Rank::numeric
numeric(r) ==
  CASE r = "Ace"   -> 1
    [] r = "Two"   -> 2
    [] r = "Three" -> 3
    [] r = "Four"  -> 4
    [] r = "Five"  -> 5
    [] r = "Six"   -> 6
    [] r = "Seven" -> 7
    [] r = "Eight" -> 8
    [] r = "Nine"  -> 9
    [] r = "Ten"   -> 10
    [] r = "Jack"  -> 11
    [] r = "Queen" -> 12
    [] r = "King"  -> 13

\* Card::new
Card(rank, suit) == [rank |-> rank, suit |-> suit]

AllCards == {Card(r, s) : r \in Ranks, s \in Suits}

\* Result values
Ok(v) == [kind |-> "Ok", val |-> v]
Err(e) == [kind |-> "Err", err |-> e]

\* a failed expect()/unwrap(): the thread panics
Panic(msg) == [kind |-> "Panic", msg |-> msg]

\* mutant of SuitTryFrom: the letters are matched without regard to case
SuitTryFrom_AnyCase(value) ==
  CASE value = "r" -> Ok("Diamonds")
    [] value = "s" -> Ok("Spades")
    [] value = "k" -> Ok("Clubs")
    [] value = "K" -> Ok("Clubs")
    [] value = "h" -> Ok("Hearts")
    [] OTHER       -> Err("unit")

\* mutant of SuitTryFrom: the English initials instead of the Norwegian ones
SuitTryFrom_English(value) ==
  CASE value = "d" -> Ok("Diamonds")
    [] value = "s" -> Ok("Spades")
    [] value = "c" -> Ok("Clubs")
    [] value = "h" -> Ok("Hearts")
    [] OTHER       -> Err("unit")

\* impl TryFrom<char> for Suit
SuitTryFrom(value) ==
  CASE value = "r" -> Ok("Diamonds")
    [] value = "s" -> Ok("Spades")
    [] value = "k" -> Ok("Clubs")
    [] value = "h" -> Ok("Hearts")
    [] OTHER       -> Err("unit")

\* impl TryFrom<char> for Rank
RankTryFrom(value) ==
  CASE value = "1" -> Ok("Ace")
    [] value = "2" -> Ok("Two")
    [] value = "3" -> Ok("Three")
    [] value = "4" -> Ok("Four")
    [] value = "5" -> Ok("Five")
    [] value = "6" -> Ok("Six")
    [] value = "7" -> Ok("Seven")
    [] value = "8" -> Ok("Eight")
    [] value = "9" -> Ok("Nine")
    [] value = "t" -> Ok("Ten")
    [] value = "j" -> Ok("Jack")
    [] value = "q" -> Ok("Queen")
    [] value = "k" -> Ok("King")
    [] OTHER       -> Err("unit")

\* enum InvalidConversion
InvalidConversionLength(n) == [variant |-> "Length", n |-> n]
InvalidConversionRank(c) == [variant |-> "Rank", c |-> c]
InvalidConversionSuit(c) == [variant |-> "Suit", c |-> c]

\* chars of the modelled alphabet that take one byte in UTF-8
AsciiChars ==
  {"1", "2", "3", "4", "5", "6", "7", "8", "9", "t", "j", "q", "k",
   "r", "s", "h", "d", "c", "0", "p", "K", " ", ","}

\* char::len_utf8: U+00E9 takes two bytes, U+20AC three
len_utf8(c) ==
  IF c \in AsciiChars THEN 1
  ELSE IF c = "U+00E9" THEN 2
  ELSE 3

\* str::len: the length of the text in bytes
RECURSIVE str_len(_)
str_len(s) == IF s = <<>> THEN 0 ELSE len_utf8(Head(s)) + str_len(Tail(s))

\* mutant of from_str: both characters are taken before either is examined
from_str_TakeBoth(s) ==
  IF str_len(s) # 2 THEN Err(InvalidConversionLength(str_len(s)))
  ELSE IF Len(s) < 2 THEN Panic("we already checked that length is 2")
  ELSE LET rank == RankTryFrom(s[1])
           suit == SuitTryFrom(s[2])
       IN  IF rank.kind # "Ok" THEN Err(InvalidConversionRank(s[1]))
           ELSE IF suit.kind # "Ok" THEN Err(InvalidConversionSuit(s[2]))
           ELSE Ok(Card(rank.val, suit.val))

\* impl FromStr for Card
from_str(s) ==
  IF str_len(s) # 2 THEN Err(InvalidConversionLength(str_len(s)))
  ELSE IF Len(s) < 1 THEN Panic("we already checked that length is 2")
  ELSE LET rank == RankTryFrom(s[1]) IN
    IF rank.kind # "Ok" THEN Err(InvalidConversionRank(s[1]))
    ELSE IF Len(s) < 2 THEN Panic("we already checked that length is 2")
    ELSE LET suit == SuitTryFrom(s[2]) IN
      IF suit.kind # "Ok" THEN Err(InvalidConversionSuit(s[2]))
      ELSE Ok(Card(rank.val, suit.val))

-----------------------------------------------------------------------------
(* hands/mod.rs: Hand, count_ranks, count_suits, Hand::try_from *)

\* enum HandCategory in declaration order, weakest first
HandCategory ==
  <<"HighCard", "OnePair", "TwoPair", "ThreeOfAKind", "Straight", "Flush",
    "FullHouse", "FourOfAKind", "StraightFlush">>

\* the elements of a sequence (HashSet::from_iter drops repeated values)
Range(seq) == {seq[i] : i \in DOMAIN seq}

\* deck.rs: const ALL_SUITS
ALL_SUITS == <<"Clubs", "Diamonds", "Hearts", "Spades">>

\* deck.rs: const ALL_RANKS
ALL_RANKS ==
  <<"Ace", "Two", "Three", "Four", "Five", "Six", "Seven", "Eight", "Nine",
    "Ten", "Jack", "Queen", "King">>

\* HashSet::iter: every element once, in an order the set does not specify
RECURSIVE iter(_)
iter(set) ==
  IF set = {} THEN <<>>
  ELSE LET c == CHOOSE x \in set : TRUE IN <<c>> \o iter(set \ {c})

\* Hand::cards: the cards in the order the hash set yields them; a hand that
\* records an iteration order yields that order
cards(hand) ==
  IF "order" \in DOMAIN hand THEN hand.order ELSE iter(hand.hand)

\* mutant of entry_add: Occupied stores 1 again
entry_add_Overwrite(m, k) ==
  [x \in DOMAIN m \cup {k} |-> IF x = k THEN 1 ELSE m[x]]

\* HashMap::entry: Occupied adds one to the count, Vacant inserts 1
entry_add(m, k) ==
  IF k \in DOMAIN m THEN [m EXCEPT ![k] = @ + 1]
  ELSE [x \in DOMAIN m \cup {k} |-> IF x = k THEN 1 ELSE m[x]]

\* mutant of count_ranks_loop: the loop ends at the first rank met again
RECURSIVE count_ranks_loop_StopAtRepeat(_, _)
count_ranks_loop_StopAtRepeat(seq, ranks) ==
  IF seq = <<>> THEN ranks
  ELSE IF Head(seq).rank \in DOMAIN ranks
    THEN entry_add(ranks, Head(seq).rank)
  ELSE count_ranks_loop_StopAtRepeat(Tail(seq),
                                     entry_add(ranks, Head(seq).rank))

\* the loop of count_ranks over the cards in iteration order
RECURSIVE count_ranks_loop(_, _)
count_ranks_loop(seq, ranks) ==
  IF seq = <<>> THEN ranks
  ELSE count_ranks_loop(Tail(seq), entry_add(ranks, Head(seq).rank))

\* Hand::count_ranks
count_ranks(hand) == count_ranks_loop(cards(hand), <<>>)

\* mutant of count_suits_loop: a suit met again is not counted
RECURSIVE count_suits_loop_Presence(_, _)
count_suits_loop_Presence(seq, suits) ==
  IF seq = <<>> THEN suits
  ELSE count_suits_loop_Presence(Tail(seq),
         IF Head(seq).suit \in DOMAIN suits THEN suits
         ELSE entry_add(suits, Head(seq).suit))

\* the loop of count_suits over the cards in iteration order
RECURSIVE count_suits_loop(_, _)
count_suits_loop(seq, suits) ==
  IF seq = <<>> THEN suits
  ELSE count_suits_loop(Tail(seq), entry_add(suits, Head(seq).suit))

\* Hand::count_suits
count_suits(hand) == count_suits_loop(cards(hand), <<>>)

\* enum HandConstructionError
HandConstructionErrorLength(n) == [variant |-> "Length", n |-> n]
HandConstructionErrorUniqueness(n) == [variant |-> "Uniqueness", n |-> n]

\* mutant of try_from: the distinct cards are not counted
try_from_NoDedup(value) ==
  IF Len(value) # 5 THEN Err(HandConstructionErrorLength(Len(value)))
  ELSE Ok([hand |-> Range(value)])

\* mutant of try_from: the distinct cards are counted before the slice is
try_from_UniquenessFirst(value) ==
  LET hand == Range(value) IN
    IF Cardinality(hand) # Len(value)
      THEN Err(HandConstructionErrorUniqueness(Cardinality(hand)))
    ELSE IF Len(value) # 5
      THEN Err(HandConstructionErrorLength(Len(value)))
    ELSE Ok([hand |-> hand])

\* impl TryFrom<&[Card]> for Hand
try_from(value) ==
  IF Len(value) # 5 THEN Err(HandConstructionErrorLength(Len(value)))
  ELSE LET hand == Range(value) IN
    IF Cardinality(hand) # 5
      THEN Err(HandConstructionErrorUniqueness(Cardinality(hand)))
    ELSE Ok([hand |-> hand])

-----------------------------------------------------------------------------
(* hands/classify.rs *)

\* u8 subtraction as the release build computes it
u8_sub(a, b) == (a - b + 256) % 256

\* rank_count.keys().copied().sorted().collect()
sorted_keys(rank_count) ==
  [i \in 1..Cardinality(DOMAIN rank_count) |->
     CHOOSE r \in DOMAIN rank_count :
       Cardinality({q \in DOMAIN rank_count : RankOrd(q) < RankOrd(r)}) = i - 1]

\* mutant of is_flush: four cards of one suit are enough
is_flush_FourOfOneSuit(suit_count) ==
  \E k \in DOMAIN suit_count : suit_count[k] >= 4

is_flush(suit_count) == Cardinality(DOMAIN suit_count) = 1

\* mutant of is_straight: any five ranks from Ace up to King pass as the
\* Ten-through-Ace case
is_straight_AceKing(rank_count) ==
  IF Cardinality(DOMAIN rank_count) # 5 THEN FALSE
  ELSE LET ranks == sorted_keys(rank_count) IN
    IF ranks[1] = "Ace" /\ ranks[5] = "King" THEN TRUE
    ELSE u8_sub(numeric(ranks[5]), numeric(ranks[1])) = 4

is_straight(rank_count) ==
  IF Cardinality(DOMAIN rank_count) # 5 THEN FALSE
  ELSE LET ranks == sorted_keys(rank_count) IN
    IF ranks[1] = "Ace" /\ ranks[2] = "Ten" THEN TRUE
    ELSE u8_sub(numeric(ranks[5]), numeric(ranks[1])) = 4

\* ranks[i] on a Vec: a read past the end panics
index(v, i) ==
  IF i + 1 \in DOMAIN v THEN Ok(v[i + 1])
  ELSE Panic("index out of bounds")

\* u8 subtraction: a build with overflow checks panics below zero, a build
\* without them wraps
u8_sub_checked(a, b, overflow_checks) ==
  IF overflow_checks /\ a < b THEN Panic("attempt to subtract with overflow")
  ELSE Ok(u8_sub(a, b))

\* is_straight step by step: its outcome, the indices of ranks it read and
\* the operands of its subtraction
is_straight_run(rank_count, overflow_checks) ==
  IF Cardinality(DOMAIN rank_count) # 5
    THEN [out |-> Ok(FALSE), reads |-> {}, operands |-> <<>>]
  ELSE LET ranks == sorted_keys(rank_count)
           first == index(ranks, 0)
           second == index(ranks, 1)
           last == index(ranks, 4)
       IN
    IF first.kind = "Panic"
      THEN [out |-> first, reads |-> {0}, operands |-> <<>>]
    ELSE IF first.val = "Ace" /\ second.kind = "Panic"
      THEN [out |-> second, reads |-> {0, 1}, operands |-> <<>>]
    ELSE IF first.val = "Ace" /\ second.val = "Ten"
      THEN [out |-> Ok(TRUE), reads |-> {0, 1}, operands |-> <<>>]
    ELSE LET reads == IF first.val = "Ace" THEN {0, 1, 4} ELSE {0, 4} IN
      IF last.kind = "Panic"
        THEN [out |-> last, reads |-> reads, operands |-> <<>>]
      ELSE LET operands == <<numeric(last.val), numeric(first.val)>>
               difference == u8_sub_checked(operands[1], operands[2],
                                            overflow_checks)
           IN  [out |-> IF difference.kind = "Panic" THEN difference
                        ELSE Ok(difference.val = 4),
                reads |-> reads,
                operands |-> operands]

\* mutant of is_four_of_a_kind: three of a rank are taken for four
is_four_of_a_kind_AtLeastThree(rank_count) ==
  \E k \in DOMAIN rank_count : rank_count[k] >= 3

is_four_of_a_kind(rank_count) == \E k \in DOMAIN rank_count : rank_count[k] = 4

\* mutant of is_full_house: the number of distinct ranks is not looked at
is_full_house_AnyPairOrTriple(rank_count) ==
  \E k \in DOMAIN rank_count : rank_count[k] = 2 \/ rank_count[k] = 3

is_full_house(rank_count) ==
  /\ Cardinality(DOMAIN rank_count) = 2
  /\ \E k \in DOMAIN rank_count : rank_count[k] = 2 \/ rank_count[k] = 3

is_three_of_a_kind(rank_count) == \E k \in DOMAIN rank_count : rank_count[k] = 3

is_two_pair(rank_count) ==
  Cardinality({k \in DOMAIN rank_count : rank_count[k] = 2}) = 2

is_one_pair(rank_count) == \E k \in DOMAIN rank_count : rank_count[k] = 2

\* mutant of classify: three of a kind is looked for before the full house
classify_PairsFirst(hand) ==
  LET rank_count == count_ranks(hand)
      suit_count == count_suits(hand)
      straight == is_straight(rank_count)
      flush == is_flush(suit_count)
  IN  IF straight /\ flush THEN "StraightFlush"
      ELSE IF is_three_of_a_kind(rank_count) THEN "ThreeOfAKind"
      ELSE IF is_four_of_a_kind(rank_count) THEN "FourOfAKind"
      ELSE IF is_full_house(rank_count) THEN "FullHouse"
      ELSE IF flush THEN "Flush"
      ELSE IF straight THEN "Straight"
      ELSE IF is_two_pair(rank_count) THEN "TwoPair"
      ELSE IF is_one_pair(rank_count) THEN "OnePair"
      ELSE "HighCard"

\* pub fn classify
classify(hand) ==
  LET rank_count == count_ranks(hand)
      suit_count == count_suits(hand)
      straight == is_straight(rank_count)
      flush == is_flush(suit_count)
  IN  IF straight /\ flush THEN "StraightFlush"
      ELSE IF is_four_of_a_kind(rank_count) THEN "FourOfAKind"
      ELSE IF is_full_house(rank_count) THEN "FullHouse"
      ELSE IF flush THEN "Flush"
      ELSE IF straight THEN "Straight"
      ELSE IF is_three_of_a_kind(rank_count) THEN "ThreeOfAKind"
      ELSE IF is_two_pair(rank_count) THEN "TwoPair"
      ELSE IF is_one_pair(rank_count) THEN "OnePair"
      ELSE "HighCard"

-----------------------------------------------------------------------------
(* backend/server hands/classify.rs: the earlier is_straight *)

\* the order .sorted() puts the ranks in: the declaration order, Ace first
RECURSIVE sorted(_)
sorted(seq) ==
  IF seq = <<>> THEN <<>>
  ELSE LET i == CHOOSE k \in DOMAIN seq :
                  \A m \in DOMAIN seq : RankOrd(seq[k]) <= RankOrd(seq[m])
       IN  <<seq[i]>> \o sorted(SubSeq(seq, 1, i - 1) \o
                                 SubSeq(seq, i + 1, Len(seq)))

\* Rank::next: the rank declared after this one; afterKing stands for what
\* follows the last rank
Rank_next(r, afterKing) ==
  IF RankOrd(r) = Len(RankDecl) THEN afterKing ELSE RankDecl[RankOrd(r) + 1]

\* what may follow King: a wrap to Ace, or nothing
AfterKing == {"Ace", "None"}

\* the for loop of the earlier is_straight over the ranks after the first
RECURSIVE backend_is_straight_loop(_, _, _, _, _)
backend_is_straight_loop(ranks, previous, n, first_is_ten, afterKing) ==
  IF ranks = <<>> THEN TRUE
  ELSE LET current == Head(ranks) IN
    IF first_is_ten /\ n = 3 /\ current = "Ace" THEN TRUE
    ELSE IF current # Rank_next(previous, afterKing) THEN FALSE
    ELSE backend_is_straight_loop(Tail(ranks), current, n + 1, first_is_ten,
                                  afterKing)

\* fn is_straight(hand: &Hand) of backend/server
backend_is_straight(hand, afterKing) ==
  LET ranks == sorted([i \in 1..Len(cards(hand)) |-> cards(hand)[i].rank])
      previous == Head(ranks)
      first_is_ten == previous = "Ten"
  IN  backend_is_straight_loop(Tail(ranks), previous, 0, first_is_ten,
                               afterKing)

-----------------------------------------------------------------------------
(* deck.rs *)

\* mutant of DECK: every card is given the first suit
DECK_RanksOnly ==
  [i \in 1..(Len(ALL_SUITS) * Len(ALL_RANKS)) |->
     Card(ALL_RANKS[((i - 1) % Len(ALL_RANKS)) + 1], ALL_SUITS[1])]

\* the initializer of lazy_static DECK: suits x ranks, suit-major
DECK ==
  [i \in 1..(Len(ALL_SUITS) * Len(ALL_RANKS)) |->
     Card(ALL_RANKS[((i - 1) % Len(ALL_RANKS)) + 1],
          ALL_SUITS[((i - 1) \div Len(ALL_RANKS)) + 1])]

\* the lazy static before its first dereference
DeckUninit == [init |-> FALSE, cards |-> <<>>]

\* Deref of the lazy static: the first access runs the initializer
DeckDeref(d) == IF d.init THEN d ELSE [init |-> TRUE, cards |-> DECK]

\* draw_hand, given the positions choose_multiple(&mut rng, 5) picked
draw_hand(d, picks) ==
  LET hand == [k \in DOMAIN picks |-> d.cards[picks[k]]]
      built == try_from(hand)
  IN  IF built.kind = "Ok" THEN built
      ELSE Panic("we gave five unique cards")

-----------------------------------------------------------------------------
(* router.rs *)

\* str::split(','): the segments between the commas, at least one
RECURSIVE split(_, _)
split(s, cur) ==
  IF s = <<>> THEN <<cur>>
  ELSE IF Head(s) = "," THEN <<cur>> \o split(Tail(s), <<>>)
  ELSE split(Tail(s), Append(cur, Head(s)))

\* mutant of collect: every segment is parsed and the last error is reported
RECURSIVE collect_LastError(_, _)
collect_LastError(segs, acc) ==
  IF segs = <<>> THEN [res |-> Ok(acc), parsed |-> Len(acc)]
  ELSE LET card == from_str(Head(segs))
           rest == collect_LastError(
                     Tail(segs),
                     IF card.kind = "Ok" THEN Append(acc, card.val) ELSE acc)
       IN  IF rest.res.kind # "Ok" THEN [res |-> rest.res, parsed |-> Len(acc) + Len(segs)]
           ELSE IF card.kind # "Ok" THEN [res |-> card, parsed |-> Len(acc) + Len(segs)]
           ELSE rest

\* .map(str::parse).collect::<Result<Vec<_>, _>>(): parses segment after
\* segment and stops at the first that is not Ok; parsed counts the calls made
RECURSIVE collect(_, _)
collect(segs, acc) ==
  IF segs = <<>> THEN [res |-> Ok(acc), parsed |-> Len(acc)]
  ELSE LET card == from_str(Head(segs)) IN
    IF card.kind = "Ok" THEN collect(Tail(segs), Append(acc, card.val))
    ELSE [res |-> card, parsed |-> Len(acc) + 1]

\* IntoResponse for InvalidConversion
InvalidConversionResponse(e) ==
  [status |-> "BAD_REQUEST", body |-> [what |-> "card is invalid", err |-> e]]

\* IntoResponse for HandConstructionError
HandConstructionErrorResponse(e) ==
  [status |-> "BAD_REQUEST", body |-> [what |-> "hand is invalid", err |-> e]]

\* Ok(Json(..)) of either handler
JsonResponse(v) == [status |-> "OK", body |-> v]

\* a handler that panicked produced no response of its own
PanicResponse(p) == [status |-> "PANIC", body |-> p]

\* which steps of a handler ran
Ran(parsed, built, classified) ==
  [parsed |-> parsed, built |-> built, classified |-> classified]

NoRequest == [op |-> "none"]
NoResponse == [status |-> "none"]

\* async fn analyze: the outcome for one path
analyze_outcome(path) ==
  LET got == collect(split(path, <<>>), <<>>) IN
    IF got.res.kind = "Err"
      THEN [resp |-> InvalidConversionResponse(got.res.err),
            ran |-> Ran(got.parsed, FALSE, FALSE)]
    ELSE IF got.res.kind = "Panic"
      THEN [resp |-> PanicResponse(got.res), ran |-> Ran(got.parsed, FALSE, FALSE)]
    ELSE LET hand == try_from(got.res.val) IN
      IF hand.kind = "Err"
        THEN [resp |-> HandConstructionErrorResponse(hand.err),
              ran |-> Ran(got.parsed, TRUE, FALSE)]
        ELSE [resp |-> JsonResponse(classify(hand.val)),
              ran |-> Ran(got.parsed, TRUE, TRUE)]

\* async fn analyze
analyze(path) ==
  /\ req' = [op |-> "analyze", path |-> path]
  /\ LET out == analyze_outcome(path) IN
       /\ resp' = out.resp
       /\ trace' = out.ran
  /\ pc' = "served"
  /\ UNCHANGED deck

\* async fn draw_and_analyze, given the positions the random source picked
draw_and_analyze(picks) ==
  /\ req' = [op |-> "draw", picks |-> picks]
  /\ deck' = DeckDeref(deck)
  /\ LET hand == draw_hand(DeckDeref(deck), picks) IN
       IF hand.kind = "Panic"
         THEN /\ resp' = PanicResponse(hand)
              /\ trace' = Ran(0, TRUE, FALSE)
         ELSE /\ resp' = JsonResponse([hand |-> hand.val,
                                       category |-> classify(hand.val)])
              /\ trace' = Ran(0, TRUE, TRUE)
  /\ pc' = "served"

-----
(* Inputs *)

\* the chars texts are made of: the rank and suit chars, chars that are
\* neither, and two chars that take more than one byte
Alphabet == AsciiChars \cup {"U+00E9", "U+20AC"}

Texts == UNION {[1..n -> Alphabet] : n \in 0..MaxTextLen}

\* the cards slices are made of
CardPool ==
  {Card("Ace", "Spades"), Card("Ace", "Hearts"), Card("Three", "Hearts"),
   Card("Four", "Diamonds"), Card("Five", "Clubs"), Card("Seven", "Spades")}

CardSlices == UNION {[1..n -> CardPool] : n \in 0..MaxCards}

\* the card a path names at each position when nothing is wrong with it
OwnSeg ==
  <<<<"t", "k">>, <<"j", "k">>, <<"q", "k">>, <<"k", "k">>, <<"1", "k">>,
    <<"1", "s">>, <<"1", "h">>, <<"1", "r">>>>

\* the segments a path can hold at position i: its own card, the card of the
\* first position again, a bad rank with a bad suit, a bad suit, a text that
\* is too long
SegChoices(i) ==
  {OwnSeg[((i - 1) % Len(OwnSeg)) + 1], OwnSeg[1],
   <<"0", "p">>, <<"1", "p">>, <<"t", "k", "k">>}

\* the sequences of n segments, each one of the choices of its position
RECURSIVE SegSeqs(_)
SegSeqs(n) ==
  IF n = 0 THEN {<<>>}
  ELSE {Append(p, c) : p \in SegSeqs(n - 1), c \in SegChoices(n)}

\* the segments joined by commas
RECURSIVE join(_)
join(segs) ==
  IF Len(segs) = 1 THEN Head(segs)
  ELSE Head(segs) \o <<",">> \o join(Tail(segs))

\* deck positions of the cards whose rank lies in the cyclic run of
\* RankWindow ranks that starts at rank w
WindowPositions ==
  [w \in DOMAIN ALL_RANKS |->
     {i \in DOMAIN DECK :
        ((RankOrd(DECK[i].rank) - w) % Len(ALL_RANKS)) < RankWindow}]

\* deck position of the card of rank position r and suit position s
PosOf(r, s) == Len(ALL_RANKS) * (s - 1) + r

Idle == Ran(0, FALSE, FALSE)

-----------------------------------------------------------------------------
(* The service: requests are served one after another; the deck outlives   *)
(* the requests                                                            *)

Init ==
  /\ pc = "idle"
  /\ req = NoRequest
  /\ resp = NoResponse
  /\ deck = DeckUninit
  /\ trace = Idle

\* GET /draw, the random source picking five cards within a run of ranks
DrawInWindow ==
  /\ pc = "idle"
  /\ \E w \in DOMAIN ALL_RANKS :
    LET W == WindowPositions[w] IN
    \E i1 \in W :
      \E i2 \in {i \in W : i > i1} :
        \E i3 \in {i \in W : i > i2} :
          \E i4 \in {i \in W : i > i3} :
            \E i5 \in {i \in W : i > i4} :
              draw_and_analyze(<<i1, i2, i3, i4, i5>>)

\* GET /draw, the random source picking five cards of five ranks, the first k
\* of suit s and the others of the next suit
DrawSpread ==
  /\ pc = "idle"
  /\ \E r1 \in DOMAIN ALL_RANKS :
    \E r2 \in {r \in DOMAIN ALL_RANKS : r > r1} :
      \E r3 \in {r \in DOMAIN ALL_RANKS : r > r2} :
        \E r4 \in {r \in DOMAIN ALL_RANKS : r > r3} :
          \E r5 \in {r \in DOMAIN ALL_RANKS : r > r4} :
            \E s \in DOMAIN ALL_SUITS, k \in 3..5 :
              LET rs == <<r1, r2, r3, r4, r5>>
                  t == (s % Len(ALL_SUITS)) + 1
              IN  draw_and_analyze(
                    [j \in 1..5 |-> PosOf(rs[j], IF j <= k THEN s ELSE t)])

\* GET /analyze/:cards
Analyze ==
  /\ pc = "idle"
  /\ \E n \in 1..MaxSegments :
       \E segs \in SegSeqs(n) :
         analyze(join(segs))

\* the response is sent; the service waits for the next request
Respond ==
  /\ pc = "served"
  /\ pc' = "idle"
  /\ req' = NoRequest
  /\ resp' = NoResponse
  /\ trace' = Idle
  /\ UNCHANGED deck

NextDraw == DrawInWindow \/ DrawSpread \/ Respond

SpecDraw == Init /\ [][NextDraw]_vars

NextAnalyze == Analyze \/ Respond

\* the rank characters of three five-card paths: four Aces and a Seven, two
\* Aces and three Sevens, and Two, Four, Six, Eight, Ten
ScenarioRanks ==
  <<<<"1", "1", "1", "1", "7">>, <<"1", "1", "7", "7", "7">>,
    <<"2", "4", "6", "8", "t">>>>

\* the letters a client may write a suit with: the four of the service and
\* the English initials of Diamonds and Clubs
SuitLetters == {"r", "s", "k", "h", "d", "c"}

\* GET /analyze/:cards with the ranks of a scenario, each card followed by
\* one of the suit letters
AnalyzeScenario ==
  /\ pc = "idle"
  /\ \E k \in DOMAIN ScenarioRanks :
       \E suits \in [DOMAIN ScenarioRanks[k] -> SuitLetters] :
         analyze(join([i \in DOMAIN ScenarioRanks[k] |->
                         <<ScenarioRanks[k][i], suits[i]>>]))

NextScenario == AnalyzeScenario \/ Respond

SpecScenario == Init /\ [][NextScenario]_vars

SpecAnalyze == Init /\ [][NextAnalyze]_vars

-----
(* Card::from_str on its own *)

InitParse ==
  /\ pc = "call"
  /\ req \in {[op |-> "from_str", s |-> t] : t \in Texts}
  /\ resp = NoResponse
  /\ deck = DeckUninit
  /\ trace = Idle

CallFromStr ==
  /\ pc = "call"
  /\ req.op = "from_str"
  /\ resp' = from_str(req.s)
  /\ pc' = "returned"
  /\ UNCHANGED <<req, deck, trace>>

NextParse == CallFromStr

SpecParse == InitParse /\ [][NextParse]_vars

-----------------------------------------------------------------------------
(* Hand::try_from on its own *)

InitHand ==
  /\ pc = "call"
  /\ req \in {[op |-> "try_from", value |-> v] : v \in CardSlices}
  /\ resp = NoResponse
  /\ deck = DeckUninit
  /\ trace = Idle

CallTryFrom ==
  /\ pc = "call"
  /\ req.op = "try_from"
  /\ resp' = try_from(req.value)
  /\ pc' = "returned"
  /\ UNCHANGED <<req, deck, trace>>

NextHand == CallTryFrom

SpecHand == InitHand /\ [][NextHand]_vars

-----------------------------------------------------------------------------
(* draw_hand called from several threads: the lazy static DECK behind its
   one-time initialization, each thread with its own random source *)

Threads == 1..NumThreads

\* mutant of DeckMayInitialize: a thread that finds the initializer running
\* runs it as well
DeckMayInitialize_NoBarrier(d) == d.once # "Complete"

\* lazy_static's Once: only the thread that finds it Incomplete runs the
\* initializer; a thread that finds it Running waits
DeckMayInitialize(d) == d.once = "Incomplete"

\* choose_multiple(&mut rng, 5) on a slice of n elements: min(5, n) distinct
\* positions
choose_multiple(n) ==
  IF n >= 52
    THEN {<<1, 2, 3, 4, 5>>, <<1, 14, 27, 40, 2>>, <<52, 39, 26, 13, 7>>}
    ELSE {[k \in 1..(IF n < 5 THEN n ELSE 5) |-> k]}

InitConc ==
  /\ pc = [t \in Threads |-> "idle"]
  /\ req = [t \in Threads |-> NoRequest]
  /\ resp = [t \in Threads |-> NoResponse]
  /\ deck = [once |-> "Incomplete", cards |-> <<>>]
  /\ trace = [inits |-> 0, writes |-> 0, calls |-> [t \in Threads |-> 0]]

\* a thread enters draw_hand and takes its thread-local random source
CallDraw(t) ==
  /\ pc[t] = "idle"
  /\ trace.calls[t] < MaxDraws
  /\ pc' = [pc EXCEPT ![t] = "deref"]
  /\ req' = [req EXCEPT ![t] = [op |-> "draw", vec |-> <<>>]]
  /\ trace' = [trace EXCEPT !.calls[t] = @ + 1]
  /\ UNCHANGED <<resp, deck>>

\* DECK is dereferenced: go on if it is Complete, run the initializer if this
\* thread may, wait otherwise
DerefDeck(t) ==
  /\ pc[t] = "deref"
  /\ IF deck.once = "Complete"
       THEN /\ pc' = [pc EXCEPT ![t] = "choose"]
            /\ UNCHANGED <<deck, trace>>
       ELSE /\ DeckMayInitialize(deck)
            /\ deck' = [deck EXCEPT !.once = "Running"]
            /\ trace' = [trace EXCEPT !.inits = @ + 1]
            /\ pc' = [pc EXCEPT ![t] = "init"]
  /\ UNCHANGED <<req, resp>>

\* the initializer collects the cards of one more suit into its own Vec, and
\* stores the Vec in the static once all suits are done
InitDeck(t) ==
  /\ pc[t] = "init"
  /\ LET n == Len(req[t].vec) IN
       IF n < Len(DECK)
         THEN /\ req' = [req EXCEPT ![t].vec =
                          @ \o SubSeq(DECK, n + 1, n + Len(ALL_RANKS))]
              /\ UNCHANGED <<pc, deck, trace>>
         ELSE /\ deck' = [deck EXCEPT !.cards = req[t].vec]
              /\ trace' = [trace EXCEPT !.writes = @ + 1]
              /\ pc' = [pc EXCEPT ![t] = "publish"]
              /\ UNCHANGED req
  /\ UNCHANGED resp

\* the Once is marked Complete, which releases the waiting threads
PublishDeck(t) ==
  /\ pc[t] = "publish"
  /\ deck' = [deck EXCEPT !.once = "Complete"]
  /\ pc' = [pc EXCEPT ![t] = "choose"]
  /\ UNCHANGED <<req, resp, trace>>

\* the thread reads the deck, picks positions with its own random source and
\* builds the hand
ChooseHand(t) ==
  /\ pc[t] = "choose"
  /\ \E picks \in choose_multiple(Len(deck.cards)) :
       resp' = [resp EXCEPT ![t] = [seen |-> Len(deck.cards),
                                    hand |-> draw_hand(deck, picks)]]
  /\ pc' = [pc EXCEPT ![t] = "done"]
  /\ UNCHANGED <<req, deck, trace>>

\* draw_hand returns to its caller
ReturnHand(t) ==
  /\ pc[t] = "done"
  /\ pc' = [pc EXCEPT ![t] = "idle"]
  /\ req' = [req EXCEPT ![t] = NoRequest]
  /\ resp' = [resp EXCEPT ![t] = NoResponse]
  /\ UNCHANGED <<deck, trace>>

NextConc ==
  \E t \in Threads :
    \/ CallDraw(t)
    \/ DerefDeck(t)
    \/ InitDeck(t)
    \/ PublishDeck(t)
    \/ ChooseHand(t)
    \/ ReturnHand(t)

SpecConc == InitConc /\ [][NextConc]_vars

-----------------------------------------------------------------------------
(* Hand::try_from and classify on their own, over every order in which the
   cards are supplied and every order in which the hash set yields them *)

\* one hand of each category, and the Ten-through-Ace straight
ListedHands ==
  {{Card("Ace", "Clubs"), Card("Two", "Clubs"), Card("Three", "Clubs"),
    Card("Four", "Clubs"), Card("Five", "Clubs")},
   {Card("Ace", "Clubs"), Card("Ace", "Diamonds"), Card("Ace", "Hearts"),
    Card("Ace", "Spades"), Card("Seven", "Hearts")},
   {Card("Ace", "Clubs"), Card("Ace", "Diamonds"), Card("Seven", "Clubs"),
    Card("Seven", "Spades"), Card("Seven", "Hearts")},
   {Card("Ace", "Clubs"), Card("Two", "Clubs"), Card("Three", "Clubs"),
    Card("Four", "Clubs"), Card("Seven", "Clubs")},
   {Card("Ace", "Diamonds"), Card("Two", "Clubs"), Card("Three", "Clubs"),
    Card("Four", "Clubs"), Card("Five", "Clubs")},
   {Card("Ten", "Hearts"), Card("Jack", "Clubs"), Card("Queen", "Clubs"),
    Card("King", "Spades"), Card("Ace", "Clubs")},
   {Card("Ace", "Clubs"), Card("Ace", "Diamonds"), Card("Ace", "Hearts"),
    Card("Two", "Clubs"), Card("Seven", "Hearts")},
   {Card("Ace", "Clubs"), Card("Ace", "Diamonds"), Card("Two", "Hearts"),
    Card("Two", "Clubs"), Card("Seven", "Hearts")},
   {Card("Ace", "Clubs"), Card("Ace", "Diamonds"), Card("Three", "Hearts"),
    Card("Two", "Clubs"), Card("Seven", "Hearts")},
   {Card("Two", "Spades"), Card("Four", "Hearts"), Card("Six", "Diamonds"),
    Card("Eight", "Clubs"), Card("Ten", "Hearts")}}

\* every sequence that holds each card of h once
Orders(h) == {o \in [1..Cardinality(h) -> h] : Range(o) = h}

InitOrder ==
  /\ pc = "call"
  /\ req \in {[op |-> "classify", value |-> v] :
               v \in UNION {Orders(h) : h \in ListedHands}}
  /\ resp = NoResponse
  /\ deck = DeckUninit
  /\ trace = Idle

\* Hand::try_from on the supplied slice
BuildHand ==
  /\ pc = "call"
  /\ req.op = "classify"
  /\ resp' = try_from(req.value)
  /\ pc' = "built"
  /\ UNCHANGED <<req, deck, trace>>

\* classify on the built hand, whose hash set yields its cards in some order
ClassifyYield ==
  /\ pc = "built"
  /\ resp.kind = "Ok"
  /\ \E o \in Orders(resp.val.hand) :
       LET hand == [hand |-> resp.val.hand, order |-> o] IN
         resp' = [kind |-> "Ok", val |-> hand, category |-> classify(hand)]
  /\ pc' = "classified"
  /\ UNCHANGED <<req, deck, trace>>

\* classify called once more on the same hand
ClassifyAgain ==
  /\ pc = "classified"
  /\ resp' = [resp EXCEPT !.category = classify(resp.val)]
  /\ trace' = [op |-> "classify", first |-> resp.category]
  /\ pc' = "again"
  /\ UNCHANGED <<req, deck>>

NextOrder == BuildHand \/ ClassifyYield \/ ClassifyAgain

SpecOrder == InitOrder /\ [][NextOrder]_vars

-----------------------------------------------------------------------------
(* Properties of the classifier and of the deck, checked under SpecDraw *)

\* the hand a served /draw request answered with
Drawn == pc = "served" /\ req.op = "draw" /\ resp.status = "OK"

DrawnHand == resp.body.hand.hand

\* how often rank r occurs among the cards h
Occurrences(h, r) == Cardinality({c \in h : c.rank = r})

RanksOf(h) == {c.rank : c \in h}

SameSuit(h) == \A c \in h, d \in h : c.suit = d.suit

\* five ranks of consecutive numeric values, Ace = 1 .. King = 13
Consecutive(h) ==
  \E lo \in 1..9 : {numeric(r) : r \in RanksOf(h)} = lo..(lo + 4)

TenThroughAce(h) == RanksOf(h) = {"Ten", "Jack", "Queen", "King", "Ace"}

StraightRanks(h) ==
  /\ Cardinality(RanksOf(h)) = 5
  /\ Consecutive(h) \/ TenThroughAce(h)

\* the condition of each category, as the rules of section 4.4 state it
Satisfies(h, category) ==
  CASE category = "StraightFlush" -> StraightRanks(h) /\ SameSuit(h)
    [] category = "FourOfAKind"   -> \E r \in Ranks : Occurrences(h, r) = 4
    [] category = "FullHouse"     ->
         /\ Cardinality(RanksOf(h)) = 2
         /\ \E r \in Ranks : Occurrences(h, r) \in {2, 3}
    [] category = "Flush"         -> SameSuit(h)
    [] category = "Straight"      -> StraightRanks(h)
    [] category = "ThreeOfAKind"  -> \E r \in Ranks : Occurrences(h, r) = 3
    [] category = "TwoPair"       ->
         Cardinality({r \in Ranks : Occurrences(h, r) = 2}) = 2
    [] category = "OnePair"       -> \E r \in Ranks : Occurrences(h, r) = 2
    [] category = "HighCard"      -> TRUE

\* the strongest category whose condition the cards satisfy
Strongest(h) ==
  LET i == CHOOSE k \in DOMAIN HandCategory :
             /\ Satisfies(h, HandCategory[k])
             /\ \A m \in DOMAIN HandCategory :
                  m > k => ~Satisfies(h, HandCategory[m])
  IN  HandCategory[i]

\* C1: classify returns one category for every hand, the strongest one whose
\* condition the hand satisfies; a hand that satisfies a stronger category's
\* condition is never reported as a weaker one.
C1_ClassifyReturnsStrongest ==
  Drawn =>
    /\ resp.body.category \in {HandCategory[k] : k \in DOMAIN HandCategory}
    /\ resp.body.category = Strongest(DrawnHand)

\* a full house, which also satisfies the conditions of three of a kind and of
\* one pair, is reported as FullHouse
C1_Witness ==
  /\ Drawn
  /\ resp.body.category = "FullHouse"
  /\ Satisfies(DrawnHand, "ThreeOfAKind")
  /\ Satisfies(DrawnHand, "OnePair")

\* C2: the straight predicate holds exactly for the hands of five distinct
\* ranks that are five consecutive numeric values (Ace low) or are Ten, Jack,
\* Queen, King, Ace; no other set that wraps around the Ace is a straight.
C2_StraightIffRunOrTenThroughAce ==
  Drawn =>
    (is_straight(count_ranks(resp.body.hand)) <=> StraightRanks(DrawnHand))

\* King, Ace, Two, Three, Four was drawn and is not a straight
C2_Witness ==
  /\ Drawn
  /\ RanksOf(DrawnHand) = {"King", "Ace", "Two", "Three", "Four"}
  /\ ~is_straight(count_ranks(resp.body.hand))
  /\ resp.body.category = "HighCard"

\* C5: the deck holds each of the 4 x 13 suit-rank combinations exactly once,
\* and every draw yields five pairwise distinct cards of it: the construction
\* of the Hand succeeds and draw_hand does not panic.
C5_DrawAlwaysFiveDistinct ==
  /\ deck.init =>
       /\ Len(deck.cards) = 52
       /\ {deck.cards[i] : i \in DOMAIN deck.cards} = AllCards
       /\ Cardinality(AllCards) = 52
  /\ (pc = "served" /\ req.op = "draw") =>
       /\ deck.init
       /\ resp.status = "OK"
       /\ Cardinality(DrawnHand) = 5
       /\ DrawnHand = {deck.cards[req.picks[k]] : k \in DOMAIN req.picks}

\* a draw was served from the deck its own first access built
C5_Witness ==
  /\ Drawn
  /\ deck.init
  /\ Cardinality(DrawnHand) = 5
  /\ \E c \in DrawnHand, d \in DrawnHand : c.rank = d.rank /\ c.suit # d.suit

-----------------------------------------------------------------------------
(* Properties of Hand::try_from, checked under SpecHand *)

Returned == pc = "returned"

PairwiseDistinct(seq) ==
  \A i \in DOMAIN seq, j \in DOMAIN seq : i # j => seq[i] # seq[j]

\* C3: try_from succeeds exactly when the slice has 5 elements that are
\* pairwise distinct, and the Hand then holds exactly those 5 cards.
C3_BuildHandIffFiveDistinct ==
  (Returned /\ req.op = "try_from") =>
    /\ resp.kind = "Ok" <=> (Len(req.value) = 5 /\ PairwiseDistinct(req.value))
    /\ resp.kind = "Ok" =>
         /\ resp.val.hand = {req.value[i] : i \in DOMAIN req.value}
         /\ Cardinality(resp.val.hand) = 5

\* five distinct cards were given and a Hand was built
C3_Witness ==
  /\ Returned
  /\ req.op = "try_from"
  /\ resp.kind = "Ok"
  /\ Cardinality(resp.val.hand) = 5

\* C4: a slice of n # 5 cards gives Length(n), duplicates or not; a slice of 5
\* cards of which d < 5 are distinct gives Uniqueness(d).
C4_BuildHandErrors ==
  (Returned /\ req.op = "try_from") =>
    LET n == Len(req.value)
        d == Cardinality({req.value[i] : i \in DOMAIN req.value})
    IN  /\ n # 5 => resp = Err(HandConstructionErrorLength(n))
        /\ (n = 5 /\ d < 5) => resp = Err(HandConstructionErrorUniqueness(d))

\* a slice of the wrong length that also repeats a card gave Length
C4_Witness ==
  /\ Returned
  /\ req.op = "try_from"
  /\ Len(req.value) = 6
  /\ ~PairwiseDistinct(req.value)
  /\ resp = Err(HandConstructionErrorLength(6))

-----------------------------------------------------------------------------
(* Properties of Card::from_str, checked under SpecParse *)

Parsed == pc = "returned" /\ req.op = "from_str"

\* the character each rank is written as
RankChar(r) ==
  CASE r = "Ace"   -> "1"
    [] r = "Two"   -> "2"
    [] r = "Three" -> "3"
    [] r = "Four"  -> "4"
    [] r = "Five"  -> "5"
    [] r = "Six"   -> "6"
    [] r = "Seven" -> "7"
    [] r = "Eight" -> "8"
    [] r = "Nine"  -> "9"
    [] r = "Ten"   -> "t"
    [] r = "Jack"  -> "j"
    [] r = "Queen" -> "q"
    [] r = "King"  -> "k"

\* the character each suit is written as
SuitChar(s) ==
  CASE s = "Diamonds" -> "r"
    [] s = "Spades"   -> "s"
    [] s = "Clubs"    -> "k"
    [] s = "Hearts"   -> "h"

RankChars == {RankChar(r) : r \in Ranks}

SuitChars == {SuitChar(s) : s \in Suits}

\* the two-character text of a card: rank character, then suit character
CardText(c) == <<RankChar(c.rank), SuitChar(c.suit)>>

IsLengthError(r) == r.kind = "Err" /\ r.err.variant = "Length"

\* C6: the text of each of the 52 cards parses back to that card.
C6_ParseRoundTrip ==
  Parsed => \A c \in AllCards : req.s = CardText(c) => resp = Ok(c)

\* the text of the King of Clubs, "kk", was parsed to the King of Clubs
C6_Witness ==
  /\ Parsed
  /\ req.s = CardText(Card("King", "Clubs"))
  /\ resp = Ok(Card("King", "Clubs"))

\* C7: from_str fails with Length(n) exactly when the text does not consist of
\* 2 characters, n being the number of its characters, whatever the characters
\* are.
C7_LengthErrorIffNotTwoChars ==
  Parsed =>
    /\ IsLengthError(resp) <=> Len(req.s) # 2
    /\ IsLengthError(resp) => resp.err.n = Len(req.s)

\* C8: of a 2-character text the rank is checked first: a first character that
\* is no rank character gives Rank(first) whatever the second is; a rank
\* character followed by one that is no suit character gives Suit(second);
\* otherwise the card is returned.
C8_RankBeforeSuit ==
  (Parsed /\ Len(req.s) = 2) =>
    IF req.s[1] \notin RankChars
      THEN resp = Err(InvalidConversionRank(req.s[1]))
    ELSE IF req.s[2] \notin SuitChars
      THEN resp = Err(InvalidConversionSuit(req.s[2]))
    ELSE \E c \in AllCards : req.s = CardText(c) /\ resp = Ok(c)

\* C9: the texts that parse are exactly the 52 texts of a rank character
\* followed by a suit character, each giving its own card; k is the King in
\* the first place and Clubs in the second; every other character, in upper
\* case, '0' and white space among them, is turned down.
C9_AcceptedTextsAreTheCards ==
  Parsed =>
    /\ resp.kind \in {"Ok", "Err"}
    /\ resp.kind = "Ok" <=>
         /\ Len(req.s) = 2
         /\ req.s[1] \in {"1", "2", "3", "4", "5", "6", "7", "8", "9",
                          "t", "j", "q", "k"}
         /\ req.s[2] \in {"r", "s", "k", "h"}
    /\ resp.kind = "Ok" =>
         /\ resp.val \in AllCards
         /\ req.s = CardText(resp.val)
    /\ req.s = <<"k", "k">> => resp = Ok(Card("King", "Clubs"))
    /\ Cardinality({CardText(c) : c \in AllCards}) = 52

\* a rank character followed by an upper-case suit letter was turned down
C9_Witness ==
  /\ Parsed
  /\ req.s = <<"k", "K">>
  /\ resp = Err(InvalidConversionSuit("K"))

-----------------------------------------------------------------------------
(* Properties of the analyze handler, checked under SpecAnalyze *)

Analyzed == pc = "served" /\ req.op = "analyze"

\* the segments of the path and those of them that do not parse
PathSegs == split(req.path, <<>>)

FailingSegs == {i \in DOMAIN PathSegs : from_str(PathSegs[i]).kind # "Ok"}

Leftmost(S) == CHOOSE i \in S : \A j \in S : i <= j

\* C10: when a segment fails to parse the response carries the error of the
\* leftmost failing segment, and neither try_from nor classify runs; when all
\* parse, the cards go in order to try_from, whose error is returned or whose
\* Hand is classified.
C10_AnalyzeLeftmostParseError ==
  Analyzed =>
    IF FailingSegs # {}
      THEN /\ resp = InvalidConversionResponse(
                       from_str(PathSegs[Leftmost(FailingSegs)]).err)
           /\ trace.parsed = Leftmost(FailingSegs)
           /\ ~trace.built
           /\ ~trace.classified
      ELSE LET given == [i \in DOMAIN PathSegs |-> from_str(PathSegs[i]).val]
               n == Len(given)
               d == Cardinality({given[i] : i \in DOMAIN given})
           IN  /\ trace.parsed = n
               /\ trace.built
               /\ n # 5 =>
                    /\ resp = HandConstructionErrorResponse(
                                HandConstructionErrorLength(n))
                    /\ ~trace.classified
               /\ (n = 5 /\ d # 5) =>
                    /\ resp = HandConstructionErrorResponse(
                                HandConstructionErrorUniqueness(d))
                    /\ ~trace.classified
               /\ (n = 5 /\ d = 5) =>
                    /\ resp = JsonResponse(
                                Strongest({given[i] : i \in DOMAIN given}))
                    /\ trace.classified

\* a path of six segments, one card twice and two segments failing in
\* different ways, was answered with the error of the left one
C10_Witness ==
  /\ Analyzed
  /\ Len(PathSegs) = 6
  /\ Cardinality(FailingSegs) >= 2
  /\ \E i \in FailingSegs, j \in FailingSegs :
       /\ i < j
       /\ from_str(PathSegs[i]) # from_str(PathSegs[j])
       /\ resp = InvalidConversionResponse(from_str(PathSegs[i]).err)
  /\ \E i \in DOMAIN PathSegs, j \in DOMAIN PathSegs :
       i # j /\ i \notin FailingSegs /\ PathSegs[i] = PathSegs[j]
  /\ ~trace.built

-----------------------------------------------------------------------------
(* The literal scenarios, checked under SpecScenario *)

\* the path of five two-character codes
PathOf(codes) == join(codes)

\* C11 as stated: the codes 1s,1h,1d,1k,7h give FourOfAKind, 1s,1h,7d,7k,7h
\* give FullHouse and 2s,4h,6d,8k,th give HighCard.
C11_ScenariosAsWritten ==
  Analyzed =>
    /\ req.path = PathOf(<<<<"1", "s">>, <<"1", "h">>, <<"1", "d">>,
                           <<"1", "k">>, <<"7", "h">>>>)
         => resp = JsonResponse("FourOfAKind")
    /\ req.path = PathOf(<<<<"1", "s">>, <<"1", "h">>, <<"7", "d">>,
                           <<"7", "k">>, <<"7", "h">>>>)
         => resp = JsonResponse("FullHouse")
    /\ req.path = PathOf(<<<<"2", "s">>, <<"4", "h">>, <<"6", "d">>,
                           <<"8", "k">>, <<"t", "h">>>>)
         => resp = JsonResponse("HighCard")

\* C11 amended: with Diamonds written r, the codes 1s,1h,1r,1k,7h give
\* FourOfAKind, 1s,1h,7r,7k,7h give FullHouse and 2s,4h,6r,8k,th give
\* HighCard; written with d, the third code of each fails with Suit('d') and
\* nothing is classified.
C11_ScenariosWithDefinedSuits ==
  Analyzed =>
    /\ req.path = PathOf(<<<<"1", "s">>, <<"1", "h">>, <<"1", "r">>,
                           <<"1", "k">>, <<"7", "h">>>>)
         => resp = JsonResponse("FourOfAKind")
    /\ req.path = PathOf(<<<<"1", "s">>, <<"1", "h">>, <<"7", "r">>,
                           <<"7", "k">>, <<"7", "h">>>>)
         => resp = JsonResponse("FullHouse")
    /\ req.path = PathOf(<<<<"2", "s">>, <<"4", "h">>, <<"6", "r">>,
                           <<"8", "k">>, <<"t", "h">>>>)
         => resp = JsonResponse("HighCard")
    /\ req.path \in
         {PathOf(<<<<"1", "s">>, <<"1", "h">>, <<"1", "d">>,
                   <<"1", "k">>, <<"7", "h">>>>),
          PathOf(<<<<"1", "s">>, <<"1", "h">>, <<"7", "d">>,
                   <<"7", "k">>, <<"7", "h">>>>),
          PathOf(<<<<"2", "s">>, <<"4", "h">>, <<"6", "d">>,
                   <<"8", "k">>, <<"t", "h">>>>)}
         => /\ resp = InvalidConversionResponse(InvalidConversionSuit("d"))
            /\ ~trace.classified

\* two Aces and three Sevens, Diamonds written r, were answered FullHouse
C11_Witness ==
  /\ Analyzed
  /\ req.path = PathOf(<<<<"1", "s">>, <<"1", "h">>, <<"7", "r">>,
                         <<"7", "k">>, <<"7", "h">>>>)
  /\ resp = JsonResponse("FullHouse")
  /\ trace.classified

-----------------------------------------------------------------------------
(* Order independence, checked under SpecOrder *)

Classified == pc \in {"classified", "again"}

\* C12: classify is deterministic and order-independent: whatever the order
\* in which the 5 cards were supplied to try_from and whatever the order in
\* which the hand yields them, the category is the one of the set of cards,
\* and a repeated call returns the same category.
C12_ClassifyOrderIndependent ==
  Classified =>
    /\ resp.val.hand = Range(req.value)
    /\ resp.category = classify([hand |-> Range(req.value)])
    /\ resp.category = Strongest(Range(req.value))
    /\ pc = "again" => resp.category = trace.first

\* four Aces and a Seven, supplied Seven first and yielded Seven last, were
\* classified twice
C12_Witness ==
  /\ pc = "again"
  /\ req.value[1] = Card("Seven", "Hearts")
  /\ resp.val.order[5] = Card("Seven", "Hearts")
  /\ resp.val.order # req.value
  /\ resp.category = "FourOfAKind"

-----------------------------------------------------------------------------
(* The frequency mappings, checked under SpecDraw *)

\* the sum of the values of a mapping
RECURSIVE SumOf(_)
SumOf(m) ==
  IF DOMAIN m = {} THEN 0
  ELSE LET k == CHOOSE x \in DOMAIN m : TRUE IN
         m[k] + SumOf([x \in DOMAIN m \ {k} |-> m[x]])

SuitsOf(h) == {c.suit : c \in h}

SuitOccurrences(h, s) == Cardinality({c \in h : c.suit = s})

\* C13 as stated: count_suits has exactly the suits of the hand as keys (at
\* most 4), each mapped to its number of occurrences, and every count lies
\* in 1..=4.
C13_SuitCountsUpToFour ==
  Drawn =>
    LET m == count_suits(resp.body.hand) IN
      /\ DOMAIN m = SuitsOf(DrawnHand)
      /\ Cardinality(DOMAIN m) <= 4
      /\ \A s \in DOMAIN m : m[s] = SuitOccurrences(DrawnHand, s)
      /\ \A s \in DOMAIN m : m[s] \in 1..4

\* C13 amended: count_suits has exactly the suits of the hand as keys (at
\* most 4), each mapped to its number of occurrences; every count lies in
\* 1..=5, the counts sum to 5, and a count of 5 is that of a hand of one suit.
C13_SuitCountsUpToFive ==
  Drawn =>
    LET m == count_suits(resp.body.hand) IN
      /\ DOMAIN m = SuitsOf(DrawnHand)
      /\ Cardinality(DOMAIN m) <= 4
      /\ \A s \in DOMAIN m : m[s] = SuitOccurrences(DrawnHand, s)
      /\ \A s \in DOMAIN m : m[s] \in 1..5
      /\ SumOf(m) = 5
      /\ (\E s \in DOMAIN m : m[s] = 5) <=> SameSuit(DrawnHand)

\* a hand of five cards of one suit was drawn, and its only count is 5
C13_Witness ==
  /\ Drawn
  /\ SameSuit(DrawnHand)
  /\ \E s \in Suits : count_suits(resp.body.hand) = (s :> 5)

\* C14: count_ranks has exactly the ranks of the hand as keys, each mapped
\* to its number of occurrences; every count lies in 1..=4 and the counts
\* sum to 5.
C14_RankCounts ==
  Drawn =>
    LET m == count_ranks(resp.body.hand) IN
      /\ DOMAIN m = RanksOf(DrawnHand)
      /\ \A r \in DOMAIN m : m[r] = Occurrences(DrawnHand, r)
      /\ \A r \in DOMAIN m : m[r] \in 1..4
      /\ SumOf(m) = 5

\* a hand with four cards of one rank was drawn: the count 4 occurs
C14_Witness ==
  /\ Drawn
  /\ \E r \in Ranks : Occurrences(DrawnHand, r) = 4
  /\ \E r \in Ranks : count_ranks(resp.body.hand)[r] = 4

-----------------------------------------------------------------------------
(* Concurrent draws, checked under SpecConc *)

\* the threads that are past the dereference of DECK
PastDeref == {t \in Threads : pc[t] \in {"choose", "done"}}

\* C15: with several threads in draw_hand, a concurrent first access
\* included, the initializer of the deck runs at most once and the deck is
\* stored at most once; a thread past the dereference finds the Once Complete
\* and all 52 cards; every draw returns 5 distinct cards of the deck; and once
\* the Once is Complete no step changes the deck.
C15_DeckInitialisedOnce ==
  /\ [](/\ trace.inits <= 1
        /\ trace.writes <= 1
        /\ deck.once = "Complete" => deck.cards = DECK
        /\ \A t \in PastDeref : deck.once = "Complete"
        /\ \A t \in Threads :
             pc[t] = "done" =>
               /\ resp[t].seen = Len(DECK)
               /\ resp[t].hand.kind = "Ok"
               /\ Cardinality(resp[t].hand.val.hand) = 5
               /\ resp[t].hand.val.hand \subseteq AllCards)
  /\ [][deck.once = "Complete" => deck' = deck]_vars

\* two threads, each in its first call and one of them the initializer, both
\* hold a drawn hand
C15_Witness ==
  /\ \A t \in {1, 2} : pc[t] = "done" /\ trace.calls[t] = 1
  /\ trace.inits = 1
  /\ trace.writes = 1
  /\ resp[1].hand.kind = "Ok"
  /\ resp[2].hand.kind = "Ok"

-----------------------------------------------------------------------------
(* The category by the shape of the hand, checked under SpecDraw *)

\* how many ranks occur once, twice, three times and four times among h
Multiplicities(h) ==
  [n \in 1..4 |-> Cardinality({r \in RanksOf(h) : Occurrences(h, r) = n})]

\* C16: the category follows the multiset of rank multiplicities: {4,1} is
\* FourOfAKind, {3,2} FullHouse, {3,1,1} ThreeOfAKind, {2,2,1} TwoPair,
\* {2,1,1,1} OnePair, and {1,1,1,1,1} is StraightFlush, Flush, Straight or
\* HighCard as the straight and flush predicates both, only flush, only
\* straight or neither hold; ThreeOfAKind is returned only with more than 2
\* distinct ranks.
C16_CategoryByMultiplicities ==
  Drawn =>
    LET m == Multiplicities(DrawnHand)
        straight == is_straight(count_ranks(resp.body.hand))
        flush == is_flush(count_suits(resp.body.hand))
        category == resp.body.category
    IN  /\ m = <<1, 0, 0, 1>> => category = "FourOfAKind"
        /\ m = <<0, 1, 1, 0>> => category = "FullHouse"
        /\ m = <<2, 0, 1, 0>> => category = "ThreeOfAKind"
        /\ m = <<1, 2, 0, 0>> => category = "TwoPair"
        /\ m = <<3, 1, 0, 0>> => category = "OnePair"
        /\ m = <<5, 0, 0, 0>> =>
             category = IF straight /\ flush THEN "StraightFlush"
                        ELSE IF flush THEN "Flush"
                        ELSE IF straight THEN "Straight"
                        ELSE "HighCard"
        /\ m \in {<<1, 0, 0, 1>>, <<0, 1, 1, 0>>, <<2, 0, 1, 0>>,
                  <<1, 2, 0, 0>>, <<3, 1, 0, 0>>, <<5, 0, 0, 0>>}
        /\ category = "ThreeOfAKind" => Cardinality(RanksOf(DrawnHand)) > 2

\* a hand of one rank three times and two other ranks was drawn and
\* classified ThreeOfAKind
C16_Witness ==
  /\ Drawn
  /\ Multiplicities(DrawnHand) = <<2, 0, 1, 0>>
  /\ resp.body.category = "ThreeOfAKind"
  /\ Cardinality(RanksOf(DrawnHand)) = 3

\* C17: is_two_pair returns true on the rank counts of a four-of-a-kind hand
\* (one rank four times plus one other card).
C17_TwoPairTrueOnFourOfAKind ==
  (Drawn /\ Multiplicities(DrawnHand) = <<1, 0, 0, 1>>)
    => is_two_pair(count_ranks(resp.body.hand))

-----------------------------------------------------------------------------
(* Flush and straight against the pair-type predicates, under SpecDraw *)

\* classify's chain with the FourOfAKind and FullHouse checks moved before
\* the StraightFlush check
ClassifyFoursFirst(hand) ==
  LET rank_count == count_ranks(hand)
      suit_count == count_suits(hand)
      straight == is_straight(rank_count)
      flush == is_flush(suit_count)
  IN  IF is_four_of_a_kind(rank_count) THEN "FourOfAKind"
      ELSE IF is_full_house(rank_count) THEN "FullHouse"
      ELSE IF straight /\ flush THEN "StraightFlush"
      ELSE IF flush THEN "Flush"
      ELSE IF straight THEN "Straight"
      ELSE IF is_three_of_a_kind(rank_count) THEN "ThreeOfAKind"
      ELSE IF is_two_pair(rank_count) THEN "TwoPair"
      ELSE IF is_one_pair(rank_count) THEN "OnePair"
      ELSE "HighCard"

\* classify's chain with the FourOfAKind and FullHouse checks moved after
\* the Flush and Straight checks
ClassifyFoursLast(hand) ==
  LET rank_count == count_ranks(hand)
      suit_count == count_suits(hand)
      straight == is_straight(rank_count)
      flush == is_flush(suit_count)
  IN  IF straight /\ flush THEN "StraightFlush"
      ELSE IF flush THEN "Flush"
      ELSE IF straight THEN "Straight"
      ELSE IF is_four_of_a_kind(rank_count) THEN "FourOfAKind"
      ELSE IF is_full_house(rank_count) THEN "FullHouse"
      ELSE IF is_three_of_a_kind(rank_count) THEN "ThreeOfAKind"
      ELSE IF is_two_pair(rank_count) THEN "TwoPair"
      ELSE IF is_one_pair(rank_count) THEN "OnePair"
      ELSE "HighCard"

\* C19: if the flush or the straight predicate holds, the hand has 5 distinct
\* ranks and none of the four-of-a-kind, full-house, three-of-a-kind, two-pair
\* and one-pair predicates holds; and classify's result is the one of the
\* chain with the FourOfAKind and FullHouse checks moved before StraightFlush,
\* and of the chain with them moved after Flush and Straight.
C19_FlushStraightExcludePairs ==
  Drawn =>
    LET rank_count == count_ranks(resp.body.hand)
        suit_count == count_suits(resp.body.hand)
    IN  /\ (is_flush(suit_count) \/ is_straight(rank_count)) =>
             /\ Cardinality(RanksOf(DrawnHand)) = 5
             /\ ~is_four_of_a_kind(rank_count)
             /\ ~is_full_house(rank_count)
             /\ ~is_three_of_a_kind(rank_count)
             /\ ~is_two_pair(rank_count)
             /\ ~is_one_pair(rank_count)
        /\ resp.body.category = classify(resp.body.hand)
        /\ ClassifyFoursFirst(resp.body.hand) = resp.body.category
        /\ ClassifyFoursLast(resp.body.hand) = resp.body.category

\* a flush that is no straight was drawn; the moved checks leave it a Flush
C19_Witness ==
  /\ Drawn
  /\ is_flush(count_suits(resp.body.hand))
  /\ ~is_straight(count_ranks(resp.body.hand))
  /\ Cardinality(RanksOf(DrawnHand)) = 5
  /\ resp.body.category = "Flush"
  /\ ClassifyFoursLast(resp.body.hand) = "Flush"

-----------------------------------------------------------------------------
(* The earlier is_straight of backend/server, on the hands SpecDraw draws *)

\* C18: the earlier is_straight returns true for every hand whose ranks are
\* exactly Ten, Jack, Queen, King and Ace, and false for every hand whose
\* ranks are Jack, Queen, King, Ace and Two.
C18_BackendStraightTenThroughAce ==
  Drawn =>
    \A afterKing \in AfterKing :
      /\ RanksOf(DrawnHand) = {"Ten", "Jack", "Queen", "King", "Ace"}
           => backend_is_straight(resp.body.hand, afterKing)
      /\ RanksOf(DrawnHand) = {"Jack", "Queen", "King", "Ace", "Two"}
           => ~backend_is_straight(resp.body.hand, afterKing)

\* what the earlier is_straight does instead: it rejects Jack, Queen, King,
\* Ace, Two, and Ten through Ace as well
BackendStraightRejectsBoth ==
  Drawn =>
    \A afterKing \in AfterKing :
      RanksOf(DrawnHand) \in {{"Ten", "Jack", "Queen", "King", "Ace"},
                              {"Jack", "Queen", "King", "Ace", "Two"}}
        => ~backend_is_straight(resp.body.hand, afterKing)

-----------------------------------------------------------------------------
(* from_str never panics, checked under SpecParse *)

\* C20: for every text, texts with multi-byte characters of byte length 2
\* included, from_str reaches neither expect with an exhausted iterator: it
\* returns a Card or one of the three InvalidConversion errors.
C20_ParseNeverPanics ==
  Parsed =>
    /\ resp.kind \in {"Ok", "Err"}
    /\ resp.kind = "Ok" => resp.val \in AllCards
    /\ resp.kind = "Err" => resp.err.variant \in {"Length", "Rank", "Suit"}
    /\ (str_len(req.s) = 2 /\ Len(req.s) = 1) =>
         resp = Err(InvalidConversionRank(req.s[1]))

\* the text of the single two-byte character U+00E9 passed the length test
\* and was rejected for its rank
C20_Witness ==
  /\ Parsed
  /\ req.s = <<"U+00E9">>
  /\ str_len(req.s) = 2
  /\ resp = Err(InvalidConversionRank("U+00E9"))

-----------------------------------------------------------------------------
(* is_straight's indexed reads and subtraction, checked under SpecDraw *)

\* C21: classify does not panic on any hand: is_straight reads ranks[0],
\* ranks[1] and ranks[4] only when exactly 5 distinct ranks are present, and
\* its subtraction ranks[4].numeric() - ranks[0].numeric() never goes below
\* zero, with or without overflow checks, because the sorted ranks ascend in
\* their numeric values; the difference lies in 4..=12.
C21_StraightNeverPanics ==
  Drawn =>
    \A overflow_checks \in BOOLEAN :
      LET rank_count == count_ranks(resp.body.hand)
          ranks == sorted_keys(rank_count)
          run == is_straight_run(rank_count, overflow_checks)
      IN  /\ run.out.kind = "Ok"
          /\ run.out.val = is_straight(rank_count)
          /\ run.reads # {} => Cardinality(RanksOf(DrawnHand)) = 5
          /\ \A i \in run.reads : i + 1 \in DOMAIN ranks
          /\ \A i \in DOMAIN ranks, j \in DOMAIN ranks :
               i < j => numeric(ranks[i]) < numeric(ranks[j])
          /\ run.operands # <<>> =>
               /\ run.operands[1] >= run.operands[2]
               /\ run.operands[1] - run.operands[2] \in 4..12
               /\ u8_sub(run.operands[1], run.operands[2])
                    = run.operands[1] - run.operands[2]

\* a hand of Ace, King and three ranks between them, none of them Ten next to
\* the Ace, was drawn: all three reads happened and 13 - 1 was computed
C21_Witness ==
  /\ Drawn
  /\ LET run == is_straight_run(count_ranks(resp.body.hand), TRUE) IN
       /\ run.reads = {0, 1, 4}
       /\ run.operands = <<13, 1>>
       /\ run.out = Ok(FALSE)
  /\ resp.body.category \in {"HighCard", "Flush"}

====
